---- MODULE Spec2Model ----
(***************************************************************************)
(* A model of src/src/utils.py: the Slack-export helpers                   *)
(* get_messages_dict / msgs_to_df, get_msgs_df_info, from_msg_get_replies  *)
(* and map_userid_2_realname.                                              *)
(*                                                                         *)
(* Python values.  A Python dict with optional keys is a record that has   *)
(* every key, each holding an option: None == <<>> is "key absent" (and    *)
(* also the Python value None inside a column), Some(v) == <<v>> is "key   *)
(* present with value v".  A list is a sequence.  A call that ends in an   *)
(* exception ends in status "raised" with the exception's name in the      *)
(* matching exc variable.                                                  *)
(***************************************************************************)
EXTENDS Integers, Sequences, FiniteSets, TLC

VARIABLES
    \* get_messages_dict / msgs_to_df
    msgs,        \* the argument: a list of message dicts
    idx,         \* position of the for loop of line 101 (1-based)
    msg_list,    \* the local dict of twelve columns
    status,      \* "idle" | "running" | "returned" | "raised"
    exc,         \* None, or Some(name of the exception that left the call)
    df,          \* msgs_to_df: None, or Some(table built from msg_list)
    dfStatus,    \* "idle" | "returned" | "raised"
    \* get_msgs_df_info
    table,       \* the argument df, as its columns user/replies/mentions/link_count
    info,        \* None, or Some(the four count dicts)
    infoStatus,  \* "idle" | "running" | "returned" | "raised"
    infoExc,
    \* from_msg_get_replies
    rmsg,        \* the argument msg (its reply dicts are mutated in place)
    ri,          \* position of the for loop of line 182
    replies,     \* the local list replies
    rStatus,     \* "idle" | "running" | "returned"
    rCaught,     \* None, or Some(name of the exception swallowed at line 186)
    \* map_userid_2_realname
    user_profile,  \* the directory: a list of [id, real_name]
    comm_dict,     \* the counts: an insertion-ordered list of [id, count]
    plot,
    mapOut,        \* None, or Some(rows of the returned DataFrame)
    plotted,
    mapStatus      \* "idle" | "running" | "returned" | "raised"

vars == <<msgs, idx, msg_list, status, exc, df, dfStatus,
          table, info, infoStatus, infoExc,
          rmsg, ri, replies, rStatus, rCaught,
          user_profile, comm_dict, plot, mapOut, plotted, mapStatus>>

msgsVars == <<msgs, idx, msg_list, status, exc, df, dfStatus>>
infoVars == <<table, info, infoStatus, infoExc>>
replyVars == <<rmsg, ri, replies, rStatus, rCaught>>
mapVars == <<user_profile, comm_dict, plot, mapOut, plotted, mapStatus>>

----------------------------------------------------------------------------
\* Python values

None == <<>>
Some(v) == <<v>>
Opt(present, v) == IF present THEN <<v>> ELSE <<>>

\* sequences over S of length at most n
SeqsUpTo(S, n) == UNION {[1..k -> S] : k \in 0..n}

----------------------------------------------------------------------------
\* Bounds of the model

\* longest list of messages given to get_messages_dict
MaxMsgs == 2
\* longest "replies" list of the message given to from_msg_get_replies
MaxReplies == 3
\* most rows of the table given to get_msgs_df_info
MaxRows == 2
\* most entries of the user directory, and of comm_dict
MaxUsers == 2

----------------------------------------------------------------------------
\* Input values

Users == {"U1", "U2"}

\* The timestamp of the thread parent: differs from every message's own ts.
ParentTs == "1000.0"

\* An entry of a "replies" list.  A Slack export holds mappings
\* {"user": ..., "ts": ...}; mapping = FALSE is a bare string (the user id),
\* which is hashable but supports no item assignment.  thread_ts and
\* message_id are the keys from_msg_get_replies adds.
ReplyMap(u, t) ==
    [mapping |-> TRUE, user |-> u, ts |-> Some(t), thread_ts |-> None, message_id |-> None]
ReplyStr(u) ==
    [mapping |-> FALSE, user |-> u, ts |-> None, thread_ts |-> None, message_id |-> None]

\* The value under "replies": a list (iterable) of entries, or a scalar.
RepliesList(items) == [iterable |-> TRUE, items |-> items]
RepliesScalar == [iterable |-> FALSE, items |-> <<>>]

\* Typed sub-elements (elm_) of a rich-text block.
SubEl(t, n, u, l) == [type |-> t, name |-> n, user_id |-> u, url |-> l]
EmojiA == SubEl(Some("emoji"), Some("smile"), None, None)
EmojiB == SubEl(Some("emoji"), Some("wave"), None, None)
User1 == SubEl(Some("user"), None, Some("U1"), None)
User2 == SubEl(Some("user"), None, Some("U2"), None)
Link1 == SubEl(Some("link"), None, None, Some("http://a"))
Link2 == SubEl(Some("link"), None, None, Some("http://b"))
TextEl == SubEl(Some("text"), None, None, None)
NoType == SubEl(None, Some("smile"), Some("U1"), Some("http://a"))
EmojiNoName == SubEl(Some("emoji"), None, None, None)
UserNoId == SubEl(Some("user"), None, None, None)
LinkNoUrl == SubEl(Some("link"), None, None, None)

\* elm and blk: dicts with an optional "elements" key
Elm(subs) == [elements |-> Some(subs)]
ElmBare == [elements |-> None]
Blk(elms) == [elements |-> Some(elms)]
BlkBare == [elements |-> None]
OneBlock(subs) == <<Blk(<<Elm(subs)>>)>>

DefaultBlocks == OneBlock(<<User2, EmojiA, Link1>>)

BlockInputs ==
    { <<>>,
      <<BlkBare>>,
      <<Blk(<<>>)>>,
      <<Blk(<<ElmBare>>)>>,
      OneBlock(<<>>),
      OneBlock(<<TextEl, NoType>>),
      OneBlock(<<User1, User2>>),
      OneBlock(<<User2, User1>>),
      OneBlock(<<EmojiA, EmojiB>>),
      OneBlock(<<Link2, Link1>>),
      OneBlock(<<Link1, User1, EmojiB, Link2>>),
      <<Blk(<<Elm(<<User1>>), ElmBare, Elm(<<User2, Link1>>)>>)>>,
      <<Blk(<<Elm(<<EmojiB>>)>>), BlkBare, Blk(<<Elm(<<EmojiA>>), Elm(<<Link2>>)>>)>>,
      OneBlock(<<EmojiNoName>>),
      OneBlock(<<UserNoId>>),
      OneBlock(<<LinkNoUrl>>),
      <<Blk(<<Elm(<<User1>>)>>), Blk(<<Elm(<<Link1, LinkNoUrl>>)>>)>> }

DefaultReplies == RepliesList(<<ReplyMap("U2", "1003.0")>>)

ReplyValueInputs ==
    { RepliesList(<<>>),
      RepliesList(<<ReplyStr("U1"), ReplyStr("U2")>>),
      RepliesScalar }

\* What tells one message from another: id, text, sender, timestamp.
Idents ==
    { [client_msg_id |-> "m1", text |-> "hello", user |-> "U1", ts |-> "1001.0"],
      [client_msg_id |-> "m2", text |-> "bye", user |-> "U2", ts |-> "1002.0"] }
Ident1 == CHOOSE i \in Idents : i.client_msg_id = "m1"

BaseKeys ==
    {"client_msg_id", "text", "user", "ts", "reactions", "parent_user_id",
     "thread_ts", "reply_users", "replies", "blocks"}

\* Key sets of the messages: every key present, each single key missing,
\* a system ("subtype") message, and the plain message of three keys.
KeySets ==
    {BaseKeys, BaseKeys \cup {"subtype"}, {"text", "user", "ts"},
     {"text", "user", "ts", "subtype"}}
    \cup {BaseKeys \ {k} : k \in BaseKeys}

MkMsg(K, id, blocks, rep) ==
    [ subtype        |-> Opt("subtype" \in K, "channel_join"),
      client_msg_id  |-> Opt("client_msg_id" \in K, id.client_msg_id),
      text           |-> Opt("text" \in K, id.text),
      user           |-> Opt("user" \in K, id.user),
      ts             |-> Opt("ts" \in K, id.ts),
      reactions      |-> Opt("reactions" \in K, <<"thumbsup">>),
      parent_user_id |-> Opt("parent_user_id" \in K, "U1"),
      thread_ts      |-> Opt("thread_ts" \in K, ParentTs),
      reply_users    |-> Opt("reply_users" \in K, <<"U2">>),
      replies        |-> Opt("replies" \in K, rep),
      blocks         |-> Opt("blocks" \in K, blocks) ]

MsgSet ==
    {MkMsg(K, id, DefaultBlocks, DefaultReplies) : K \in KeySets, id \in Idents}
    \cup {MkMsg(BaseKeys, Ident1, b, DefaultReplies) : b \in BlockInputs}
    \cup {MkMsg(BaseKeys, Ident1, DefaultBlocks, r) : r \in ReplyValueInputs}

----------------------------------------------------------------------------
\* get_messages_dict

EmptyMsgList ==
    [ msg_id |-> <<>>, text |-> <<>>, attachments |-> <<>>, user |-> <<>>,
      mentions |-> <<>>, emojis |-> <<>>, reactions |-> <<>>, replies |-> <<>>,
      replies_to |-> <<>>, ts |-> <<>>, links |-> <<>>, link_count |-> <<>> ]

Columns == DOMAIN EmptyMsgList

\* msg_list[col].append(v)
App(ml, col, v) == [ml EXCEPT ![col] = Append(@, v)]

\* the outcome of a piece of the loop body: the columns, and the exception
Ok(ml) == [ml |-> ml, exc |-> None]
Raise(ml, e) == [ml |-> ml, exc |-> Some(e)]

\* lines 103-106: try msg["client_msg_id"], except: None
AppendMsgId(ml, msg) ==
    IF msg.client_msg_id # None
    THEN App(ml, "msg_id", msg.client_msg_id)
    ELSE App(ml, "msg_id", None)

\* lines 108-110: msg["text"], msg["user"], msg["ts"], unguarded
AppendTextUserTs(ml, msg) ==
    IF msg.text = None THEN Raise(ml, "KeyError")
    ELSE LET a == App(ml, "text", msg.text) IN
    IF msg.user = None THEN Raise(a, "KeyError")
    ELSE LET b == App(a, "user", msg.user) IN
    IF msg.ts = None THEN Raise(b, "KeyError")
    ELSE Ok(App(b, "ts", msg.ts))

\* lines 112-115
AppendReactions(ml, msg) ==
    IF msg.reactions # None
    THEN App(ml, "reactions", msg.reactions)
    ELSE App(ml, "reactions", None)

\* lines 117-120: a reply gets msg["ts"]
AppendRepliesTo(ml, msg) ==
    IF msg.parent_user_id # None
    THEN App(ml, "replies_to", msg.ts)
    ELSE App(ml, "replies_to", None)

\* lines 122-125: the guard tests "reply_users", the body reads "replies"
AppendReplies(ml, msg) ==
    IF msg.thread_ts # None /\ msg.reply_users # None
    THEN IF msg.replies = None
         THEN Raise(ml, "KeyError")
         ELSE Ok(App(ml, "replies", msg.replies))
    ELSE Ok(App(ml, "replies", None))

\* lines 128-131: the four locals of the block walk
EmptyAcc ==
    [emoji_list |-> <<>>, mention_list |-> <<>>, link_count |-> 0,
     links |-> <<>>, exc |-> None]

\* lines 139-148: one sub-element elm_
Classify(acc, e) ==
    IF acc.exc # None \/ e.type = None THEN acc
    ELSE IF e.type = Some("emoji")
         THEN IF e.name = None THEN [acc EXCEPT !.exc = Some("KeyError")]
              ELSE [acc EXCEPT !.emoji_list = Append(@, e.name[1])]
    ELSE IF e.type = Some("user")
         THEN IF e.user_id = None THEN [acc EXCEPT !.exc = Some("KeyError")]
              ELSE [acc EXCEPT !.mention_list = Append(@, e.user_id[1])]
    ELSE IF e.type = Some("link")
         THEN IF e.url = None
              THEN [acc EXCEPT !.link_count = @ + 1, !.exc = Some("KeyError")]
              ELSE [acc EXCEPT !.link_count = @ + 1, !.links = Append(@, e.url[1])]
    ELSE acc

\* line 137: for elm_ in elm["elements"]
RECURSIVE WalkSub(_, _, _)
WalkSub(acc, subs, i) ==
    IF i > Len(subs) THEN acc ELSE WalkSub(Classify(acc, subs[i]), subs, i + 1)

\* lines 135-136: for elm in blk["elements"]: if "elements" in elm
RECURSIVE WalkElements(_, _, _)
WalkElements(acc, elms, i) ==
    IF i > Len(elms) THEN acc
    ELSE WalkElements(
            IF elms[i].elements # None /\ acc.exc = None
            THEN WalkSub(acc, elms[i].elements[1], 1) ELSE acc,
            elms, i + 1)

\* lines 133-134: for blk in msg["blocks"]: if "elements" in blk
RECURSIVE WalkBlocksFrom(_, _, _)
WalkBlocksFrom(acc, blocks, i) ==
    IF i > Len(blocks) THEN acc
    ELSE WalkBlocksFrom(
            IF blocks[i].elements # None /\ acc.exc = None
            THEN WalkElements(acc, blocks[i].elements[1], 1) ELSE acc,
            blocks, i + 1)

\* A walk that classifies the sub-elements of the first block only.
WalkBlocksFirstOnly(blocks) ==
    IF blocks # <<>> /\ blocks[1].elements # None
    THEN WalkElements(EmptyAcc, blocks[1].elements[1], 1)
    ELSE EmptyAcc

\* lines 128-148
WalkBlocks(blocks) == WalkBlocksFrom(EmptyAcc, blocks, 1)

\* lines 151-154
AppendWithBlocks(ml, blocks) ==
    LET acc == WalkBlocks(blocks) IN
    IF acc.exc # None THEN Raise(ml, acc.exc[1])
    ELSE Ok(App(App(App(App(ml, "emojis", Some(acc.emoji_list)),
                        "mentions", Some(acc.mention_list)),
                    "links", Some(acc.links)),
                "link_count", acc.link_count))

\* The else branch with empty lists in place of None.
AppendNoBlocksEmptyLists(ml) ==
    App(App(App(App(ml, "emojis", Some(<<>>)), "mentions", Some(<<>>)),
            "links", Some(<<>>)), "link_count", 0)

\* lines 156-159
AppendNoBlocks(ml) ==
    App(App(App(App(ml, "emojis", None), "mentions", None),
            "links", None), "link_count", 0)

\* lines 127-159
AppendBlocks(ml, msg) ==
    IF msg.blocks # None
    THEN AppendWithBlocks(ml, msg.blocks[1])
    ELSE Ok(AppendNoBlocks(ml))

\* lines 102-159: the body of the loop for one message
ProcessMsg(ml, msg) ==
    IF msg.subtype # None THEN Ok(ml)
    ELSE LET a == AppendTextUserTs(AppendMsgId(ml, msg), msg) IN
    IF a.exc # None THEN a
    ELSE LET b == AppendReplies(
                    AppendRepliesTo(AppendReactions(a.ml, msg), msg), msg) IN
    IF b.exc # None THEN b
    ELSE AppendBlocks(b.ml, msg)

\* One iteration of the loop of line 101.
GetMessagesDictStep ==
    /\ status = "running"
    /\ idx <= Len(msgs)
    /\ LET r == ProcessMsg(msg_list, msgs[idx]) IN
         /\ msg_list' = r.ml
         /\ exc' = r.exc
         /\ IF r.exc = None
            THEN /\ idx' = idx + 1
                 /\ status' = "running"
            ELSE /\ idx' = idx
                 /\ status' = "raised"
    /\ UNCHANGED <<msgs, df, dfStatus, infoVars, replyVars, mapVars>>

\* line 161: return msg_list
GetMessagesDictReturn ==
    /\ status = "running"
    /\ idx > Len(msgs)
    /\ status' = "returned"
    /\ UNCHANGED <<msgs, idx, msg_list, exc, df, dfStatus, infoVars, replyVars, mapVars>>

\* pd.DataFrame(dict of lists): the lists must all have one length
SameLength(ml) == \A c, d \in DOMAIN ml : Len(ml[c]) = Len(ml[d])

\* lines 203-205: msgs_to_df, once get_messages_dict has returned
MsgsToDf ==
    /\ status = "returned"
    /\ dfStatus = "idle"
    /\ IF SameLength(msg_list)
       THEN /\ df' = Some(msg_list)
            /\ dfStatus' = "returned"
            /\ exc' = exc
       ELSE /\ df' = None
            /\ dfStatus' = "raised"
            /\ exc' = Some("ValueError")
    /\ UNCHANGED <<msgs, idx, msg_list, status, infoVars, replyVars, mapVars>>

----------------------------------------------------------------------------
\* get_msgs_df_info

Range(s) == {s[i] : i \in DOMAIN s}

RECURSIVE Concat(_, _)
\* the lists ls[i], ..., ls[Len(ls)] joined in order
Concat(ls, i) == IF i > Len(ls) THEN <<>> ELSE ls[i] \o Concat(ls, i + 1)

\* dict(Counter(xs)): each value of xs with the number of its occurrences
CounterDict(xs) ==
    [x \in Range(xs) |-> Cardinality({i \in DOMAIN xs : xs[i] = x})]

RECURSIVE SumOver(_, _, _)
\* the sum of nums[i] over the set I of positions
SumOver(nums, I, acc) ==
    IF I = {} THEN acc
    ELSE LET i == CHOOSE j \in I : TRUE IN SumOver(nums, I \ {i}, acc + nums[i])

\* line 53: df.user.value_counts().to_dict() (value_counts skips None)
MsgsCount(t) ==
    CounterDict(Concat(t.user, 1))

\* line 54, the comprehension: [u for r in df.replies if r != None for u in r].
\* The non-None entries of the column, each of them iterated.
NonNull(col) == SelectSeq(col, LAMBDA r : r # None)
RepliesIterable(t) ==
    \A i \in DOMAIN t.replies : t.replies[i] # None => t.replies[i][1].iterable
ReplyElements(t) ==
    LET rs == NonNull(t.replies) IN Concat([i \in DOMAIN rs |-> rs[i][1].items], 1)

\* line 54, Counter(...): every element is hashed; a dict is unhashable
RepliesCount(t) ==
    IF ~RepliesIterable(t) THEN Raise(<<>>, "TypeError")
    ELSE LET us == ReplyElements(t) IN
         IF \E i \in DOMAIN us : us[i].mapping
         THEN Raise(<<>>, "TypeError")
         ELSE Ok(CounterDict([i \in DOMAIN us |-> us[i].user]))

\* line 55: the same count over the mentions column (lists of user ids)
MentionsCount(t) ==
    LET ms == NonNull(t.mentions) IN
    CounterDict(Concat([i \in DOMAIN ms |-> ms[i][1]], 1))

\* line 56: df.groupby("user").link_count.sum().to_dict()
LinksCount(t) ==
    [u \in {t.user[i][1] : i \in {j \in DOMAIN t.user : t.user[j] # None}} |->
        SumOver(t.link_count, {i \in DOMAIN t.user : t.user[i] = Some(u)}, 0)]

\* lines 53-57
GetMsgsDfInfo ==
    /\ infoStatus = "running"
    /\ LET r == RepliesCount(table) IN
         IF r.exc # None
         THEN /\ infoStatus' = "raised"
              /\ infoExc' = r.exc
              /\ info' = None
         ELSE /\ infoStatus' = "returned"
              /\ infoExc' = None
              /\ info' = Some([msgs_count_dict |-> MsgsCount(table),
                               replies_count_dict |-> r.ml,
                               mentions_count_dict |-> MentionsCount(table),
                               links_count_dict |-> LinksCount(table)])
    /\ UNCHANGED <<table, msgsVars, replyVars, mapVars>>

\* The rows of the tables given to get_msgs_df_info: the replies column holds
\* what line 123 stores (the message's "replies" list) or None.
RowReplyEntries == {ReplyStr("U1"), ReplyStr("U2"), ReplyMap("U2", "1003.0")}
RowReplies ==
    {None} \cup {Some(RepliesList(s)) : s \in SeqsUpTo(RowReplyEntries, MaxReplies)}
InfoRows ==
    { [user |-> Some(u), replies |-> r, mentions |-> ml[1], link_count |-> ml[2]] :
        u \in Users, r \in RowReplies,
        ml \in {<<None, 0>>, <<Some(<<"U1", "U1">>), 1>>} }

\* the table of a list of rows, column by column
TableOf(rows) ==
    [ user |-> [i \in DOMAIN rows |-> rows[i].user],
      replies |-> [i \in DOMAIN rows |-> rows[i].replies],
      mentions |-> [i \in DOMAIN rows |-> rows[i].mentions],
      link_count |-> [i \in DOMAIN rows |-> rows[i].link_count] ]

----------------------------------------------------------------------------
\* from_msg_get_replies

\* line 180: "thread_ts" in msg and "replies" in msg
HasReplyKeys(msg) == msg.thread_ts # None /\ msg.replies # None

\* An except clause that throws the collected replies away.
ExceptClear(reps) == <<>>

\* lines 186-187: except: pass -- the list built so far is kept
ExceptPass(reps) == reps

\* msg with entry i of msg["replies"] replaced (the reply dict is mutated in place)
SetReply(msg, i, r) == [msg EXCEPT !.replies[1].items[i] = r]

\* One iteration of the loop of line 182, with the except clause and the
\* return that follow a failure in it.
FromMsgGetRepliesStep ==
    /\ rStatus = "running"
    /\ HasReplyKeys(rmsg)
    /\ rmsg.replies[1].iterable
    /\ ri <= Len(rmsg.replies[1].items)
    /\ LET reply == rmsg.replies[1].items[ri]
           tagged == [reply EXCEPT !.thread_ts = rmsg.thread_ts]
           full == [tagged EXCEPT !.message_id = rmsg.client_msg_id]
       IN IF ~reply.mapping
          THEN \* line 183: item assignment on a non-mapping
               /\ rCaught' = Some("TypeError")
               /\ replies' = ExceptPass(replies)
               /\ rStatus' = "returned"
               /\ UNCHANGED <<rmsg, ri>>
          ELSE IF rmsg.client_msg_id = None
          THEN \* line 184: thread_ts is set, then msg["client_msg_id"] fails
               /\ rCaught' = Some("KeyError")
               /\ rmsg' = SetReply(rmsg, ri, tagged)
               /\ replies' = ExceptPass(replies)
               /\ rStatus' = "returned"
               /\ UNCHANGED ri
          ELSE /\ rmsg' = SetReply(rmsg, ri, full)
               /\ replies' = Append(replies, full)
               /\ ri' = ri + 1
               /\ UNCHANGED <<rStatus, rCaught>>
    /\ UNCHANGED <<msgsVars, infoVars, mapVars>>

\* line 188: return replies -- the keys are missing, the loop is over, or
\* msg["replies"] cannot be iterated (TypeError, swallowed)
FromMsgGetRepliesReturn ==
    /\ rStatus = "running"
    /\ IF ~HasReplyKeys(rmsg) THEN TRUE
       ELSE IF ~rmsg.replies[1].iterable THEN TRUE
       ELSE ri > Len(rmsg.replies[1].items)
    /\ IF HasReplyKeys(rmsg) /\ ~rmsg.replies[1].iterable
       THEN /\ rCaught' = Some("TypeError")
            /\ replies' = ExceptPass(replies)
       ELSE UNCHANGED <<rCaught, replies>>
    /\ rStatus' = "returned"
    /\ UNCHANGED <<rmsg, ri, msgsVars, infoVars, mapVars>>

\* The messages given to from_msg_get_replies.
ArgReplyEntries == {ReplyMap("U1", "1003.0"), ReplyMap("U2", "1004.0"), ReplyStr("U1")}
ArgReplies ==
    {RepliesScalar} \cup {RepliesList(s) : s \in SeqsUpTo(ArgReplyEntries, MaxReplies)}
ReplyMsgSet ==
    { MkMsg({"text", "user", "ts"} \cup K, Ident1, DefaultBlocks, r) :
        K \in SUBSET {"client_msg_id", "thread_ts", "replies"}, r \in ArgReplies }

----------------------------------------------------------------------------
\* map_userid_2_realname

\* lines 283-284: real_name[i] is the real name of profile i
RealNames(profile) == [i \in DOMAIN profile |-> profile[i].real_name]

\* lines 287-289: user_dict[id] = real_name[count]; a later entry of the
\* same id replaces an earlier one
UserDict(profile) ==
    [u \in {profile[i].id : i \in DOMAIN profile} |->
        LET last == CHOOSE i \in DOMAIN profile :
                        /\ profile[i].id = u
                        /\ \A j \in DOMAIN profile : profile[j].id = u => j <= i
        IN RealNames(profile)[last]]

\* d[name] = count on an insertion-ordered dict: a new key goes last, a key
\* already there keeps its place and takes the new value
DictSet(d, name, count) ==
    IF \E k \in DOMAIN d : d[k].name = name
    THEN [k \in DOMAIN d |-> IF d[k].name = name THEN [name |-> name, count |-> count] ELSE d[k]]
    ELSE Append(d, [name |-> name, count |-> count])

RECURSIVE StoreFrom(_, _, _, _)
\* lines 292-294 from entry i of comm_dict on
StoreFrom(ud, comm, i, d) ==
    IF i > Len(comm) THEN d
    ELSE StoreFrom(ud, comm, i + 1,
                   IF comm[i].id \in DOMAIN ud
                   THEN DictSet(d, ud[comm[i].id], comm[i].count)
                   ELSE d)

\* The loop without its membership test: user_dict[i] fails on an
\* identifier the directory does not have.
StoreMappingUnguarded(ud, comm) ==
    IF \E i \in DOMAIN comm : comm[i].id \notin DOMAIN ud
    THEN Raise(<<>>, "KeyError")
    ELSE Ok(StoreFrom(ud, comm, 1, <<>>))

\* lines 292-294: ac_comm_dict[user_dict[i]] = comm_dict[i] for the ids in user_dict
StoreMapping(ud, comm) == Ok(StoreFrom(ud, comm, 1, <<>>))

\* lines 296-297: sort_values(by=count, ascending=False); the default sort
\* is not stable, so rows of equal count come in any order
SortedDescending(rows) ==
    { s \in [DOMAIN rows -> Range(rows)] :
        /\ \A r \in Range(rows) : \E i \in DOMAIN s : s[i] = r
        /\ \A i, j \in DOMAIN s : i < j => s[i].count >= s[j].count }

\* lines 278-303
MapUserid2Realname ==
    /\ mapStatus = "running"
    /\ LET r == StoreMapping(UserDict(user_profile), comm_dict) IN
         IF r.exc # None
         THEN /\ mapStatus' = "raised"
              /\ mapOut' = None
              /\ plotted' = FALSE
         ELSE /\ mapStatus' = "returned"
              /\ \E out \in SortedDescending(r.ml) : mapOut' = Some(out)
              /\ plotted' = plot
    /\ UNCHANGED <<user_profile, comm_dict, plot, msgsVars, infoVars, replyVars>>

\* The directories and count dicts given to map_userid_2_realname: the ids
\* of a directory are distinct, and so are the keys of a dict.
DirIds == {"U1", "U2", "U3"}
DirNames == {"Ann", "Bob"}
Counts == {1, 2}
DistinctIds(s) == \A i, j \in DOMAIN s : i # j => s[i].id # s[j].id
Profiles ==
    { p \in SeqsUpTo([id : DirIds, real_name : DirNames], MaxUsers) : DistinctIds(p) }
CommDicts ==
    { c \in SeqsUpTo([id : DirIds, count : Counts], MaxUsers) : DistinctIds(c) }

----------------------------------------------------------------------------
\* The state of each function before it is called.

MsgsIdle ==
    /\ msgs = <<>> /\ idx = 1 /\ msg_list = EmptyMsgList /\ status = "idle"
    /\ exc = None /\ df = None /\ dfStatus = "idle"
InfoIdle ==
    /\ table = TableOf(<<>>) /\ info = None /\ infoStatus = "idle" /\ infoExc = None
ReplyIdle ==
    /\ rmsg = MkMsg({}, Ident1, <<>>, RepliesScalar) /\ ri = 1 /\ replies = <<>>
    /\ rStatus = "idle" /\ rCaught = None
MapIdle ==
    /\ user_profile = <<>> /\ comm_dict = <<>> /\ plot = FALSE /\ mapOut = None
    /\ plotted = FALSE /\ mapStatus = "idle"

\* get_messages_dict(msgs) is entered: lines 85-98 build the empty columns.
InitMsgs ==
    /\ msgs \in SeqsUpTo(MsgSet, MaxMsgs)
    /\ idx = 1
    /\ msg_list = EmptyMsgList
    /\ status = "running"
    /\ exc = None
    /\ df = None
    /\ dfStatus = "idle"
    /\ InfoIdle /\ ReplyIdle /\ MapIdle

NextMsgs == GetMessagesDictStep \/ GetMessagesDictReturn \/ MsgsToDf

SpecMsgs == InitMsgs /\ [][NextMsgs]_vars

\* get_msgs_df_info(df) is entered.
InitInfo ==
    /\ table \in {TableOf(rows) : rows \in SeqsUpTo(InfoRows, MaxRows)}
    /\ info = None
    /\ infoStatus = "running"
    /\ infoExc = None
    /\ MsgsIdle /\ ReplyIdle /\ MapIdle

NextInfo == GetMsgsDfInfo

SpecInfo == InitInfo /\ [][NextInfo]_vars

\* from_msg_get_replies(msg) is entered: line 179, replies = [].
InitReplies ==
    /\ rmsg \in ReplyMsgSet
    /\ ri = 1
    /\ replies = <<>>
    /\ rStatus = "running"
    /\ rCaught = None
    /\ MsgsIdle /\ InfoIdle /\ MapIdle

NextReplies == FromMsgGetRepliesStep \/ FromMsgGetRepliesReturn

SpecReplies == InitReplies /\ [][NextReplies]_vars

\* map_userid_2_realname(user_profile, comm_dict, plot) is entered.
InitMap ==
    /\ user_profile \in Profiles
    /\ comm_dict \in CommDicts
    /\ plot \in BOOLEAN
    /\ mapOut = None
    /\ plotted = FALSE
    /\ mapStatus = "running"
    /\ MsgsIdle /\ InfoIdle /\ ReplyIdle

NextMap == MapUserid2Realname

SpecMap == InitMap /\ [][NextMap]_vars

----------------------------------------------------------------------------
\* Properties of get_messages_dict (checked under SpecMsgs)

\* the messages of the input that have no "subtype" key, in input order
NonSub == SelectSeq(msgs, LAMBDA m : m.subtype = None)

\* the call is over, with a result or with an exception
Finished == status \in {"returned", "raised"}

\* the sub-elements of a "blocks" value in traversal order:
\* block -> element -> sub-element, skipping a dict without "elements"
ElementsOf(ds) ==
    Concat([i \in DOMAIN ds |->
              IF ds[i].elements = None THEN <<>> ELSE ds[i].elements[1]], 1)
SubElementsOf(blocks) == ElementsOf(ElementsOf(blocks))
Typed(blocks, t) == SelectSeq(SubElementsOf(blocks), LAMBDA e : e.type = Some(t))
UserIdsOf(blocks) ==
    LET es == Typed(blocks, "user") IN [i \in DOMAIN es |-> es[i].user_id[1]]
NamesOf(blocks) ==
    LET es == Typed(blocks, "emoji") IN [i \in DOMAIN es |-> es[i].name[1]]
UrlsOf(blocks) ==
    LET es == Typed(blocks, "link") IN [i \in DOMAIN es |-> es[i].url[1]]

\* the four block-derived columns have one entry per non-subtype message
BlockColumnsAligned ==
    \A c \in {"mentions", "emojis", "links", "link_count"} :
        Len(msg_list[c]) = Len(NonSub)

\* C1: for every input list, the call produces one row per message without
\* "subtype" and none for the others: the k-th msg_id, text, user and ts are
\* the client_msg_id, text, user and ts of the k-th non-subtype message.
C1_OneRowPerMessage ==
    Finished =>
        /\ status = "returned"
        /\ \A c \in {"msg_id", "text", "user", "ts"} : Len(msg_list[c]) = Len(NonSub)
        /\ \A k \in DOMAIN NonSub :
              /\ msg_list.msg_id[k] = NonSub[k].client_msg_id
              /\ msg_list.text[k] = NonSub[k].text
              /\ msg_list.user[k] = NonSub[k].user
              /\ msg_list.ts[k] = NonSub[k].ts

\* C2: in the returned columns, the row of a non-subtype message that has
\* "blocks" lists, in traversal order, exactly the user_id / name / url of
\* the sub-elements typed "user" / "emoji" / "link", and its link_count is
\* the length of its links list.
C2_BlockLists ==
    status = "returned" =>
        /\ BlockColumnsAligned
        /\ \A k \in DOMAIN NonSub :
              NonSub[k].blocks # None =>
                  LET b == NonSub[k].blocks[1] IN
                  /\ msg_list.mentions[k] = Some(UserIdsOf(b))
                  /\ msg_list.emojis[k] = Some(NamesOf(b))
                  /\ msg_list.links[k] = Some(UrlsOf(b))
                  /\ msg_list.link_count[k] = Len(msg_list.links[k][1])

\* C2 witness: a returned row whose blocks gave two mentions (so their order
\* shows) from a second element, and a link.
C2_Witness ==
    /\ status = "returned"
    /\ \E k \in DOMAIN NonSub :
          /\ NonSub[k].blocks # None
          /\ Len(Typed(NonSub[k].blocks[1], "user")) >= 2
          /\ Len(ElementsOf(NonSub[k].blocks[1])) >= 2
          /\ msg_list.link_count[k] >= 1

\* C3: the call never raises on a missing optional field, and the missing
\* identifier, reactions and replies show as None in the message's row.
C3_NeverRaises ==
    /\ status # "raised"
    /\ status = "returned" =>
          \A k \in DOMAIN NonSub :
              /\ NonSub[k].client_msg_id = None => msg_list.msg_id[k] = None
              /\ NonSub[k].reactions = None => msg_list.reactions[k] = None
              /\ NonSub[k].replies = None => msg_list.replies[k] = None

\* C8: in the returned columns, the row of a non-subtype message without
\* "blocks" has mentions, emojis and links None and link_count 0.
C8_NoBlocksRow ==
    status = "returned" =>
        /\ BlockColumnsAligned
        /\ \A k \in DOMAIN NonSub :
              NonSub[k].blocks = None =>
                  /\ msg_list.mentions[k] = None
                  /\ msg_list.emojis[k] = None
                  /\ msg_list.links[k] = None
                  /\ msg_list.link_count[k] = 0

\* C8 witness: the call returned a row for a message without "blocks",
\* next to a row for a message with them.
C8_Witness ==
    /\ status = "returned"
    /\ \E k, j \in DOMAIN NonSub :
          NonSub[k].blocks = None /\ NonSub[j].blocks # None

\* C9: after the call, the twelve columns all have the length of the list
\* of non-subtype messages.
C9_ColumnsSameLength ==
    status = "returned" =>
        \A c \in Columns : Len(msg_list[c]) = Len(NonSub)

\* C10: the replies_to entry of a reply (a message with "parent_user_id") is
\* the timestamp of the message replied to, the parent's thread_ts, and the
\* entry of any other message is None.
C10_RepliesToParent ==
    status = "returned" =>
        \A k \in DOMAIN NonSub :
            IF NonSub[k].parent_user_id # None
            THEN NonSub[k].thread_ts # None =>
                     msg_list.replies_to[k] = NonSub[k].thread_ts
            ELSE msg_list.replies_to[k] = None

----------------------------------------------------------------------------
\* Properties of from_msg_get_replies (checked under SpecReplies)

\* the entries of msg["replies"], when it is there and a list
ReplyItems(msg) ==
    IF msg.replies = None THEN <<>>
    ELSE IF ~msg.replies[1].iterable THEN <<>>
    ELSE msg.replies[1].items

\* the reply structure is absent or malformed
Malformed(msg) ==
    \/ msg.thread_ts = None
    \/ msg.replies = None
    \/ msg.client_msg_id = None
    \/ ~msg.replies[1].iterable
    \/ \E i \in DOMAIN ReplyItems(msg) : ~ReplyItems(msg)[i].mapping

\* how many entries precede the first one that is not a mapping
GoodPrefixLen(items) ==
    LET bad == {i \in DOMAIN items : ~items[i].mapping} IN
    IF bad = {} THEN Len(items)
    ELSE (CHOOSE i \in bad : \A j \in bad : i <= j) - 1

\* C4 as stated: an absent or malformed reply structure gives the empty
\* list, never the replies that preceded the malformed entry.
C4_EmptyOnMalformed ==
    (rStatus = "returned" /\ Malformed(rmsg)) => replies = <<>>

\* C4 as amended: the call ends without an exception, and what it returns
\* is the run of entries before the first one that is not a mapping, each
\* tagged with the message's thread_ts and client_msg_id: nothing when
\* "thread_ts", "replies" or "client_msg_id" is missing or "replies" is no
\* list, and a partial list when a later entry is the first malformed one.
C4_PrefixBeforeMalformed ==
    /\ rStatus \in {"running", "returned"}
    /\ rStatus = "returned" =>
          IF rmsg.thread_ts = None \/ rmsg.replies = None \/ rmsg.client_msg_id = None
          THEN replies = <<>>
          ELSE LET items == ReplyItems(rmsg)
                   n == GoodPrefixLen(items)
               IN /\ replies = SubSeq(items, 1, n)
                  /\ \A i \in 1..n :
                        /\ items[i].thread_ts = rmsg.thread_ts
                        /\ items[i].message_id = rmsg.client_msg_id

\* C4 witness: a malformed entry after a well-formed one, and the call
\* returned the entries before it.
C4_Witness ==
    /\ rStatus = "returned"
    /\ rCaught = Some("TypeError")
    /\ replies # <<>>
    /\ \E i \in DOMAIN ReplyItems(rmsg) : i > 1 /\ ~ReplyItems(rmsg)[i].mapping

----------------------------------------------------------------------------
\* Properties of get_msgs_df_info (checked under SpecInfo)

\* how often user id u occurs in the non-None entries of the replies column
ItemsAt(i) ==
    IF table.replies[i] = None THEN <<>> ELSE table.replies[i][1].items
Occurrences(u) ==
    Cardinality(UNION { {<<i, j>> : j \in {k \in DOMAIN ItemsAt(i) : ItemsAt(i)[k].user = u}} :
                          i \in DOMAIN table.replies })

\* C5: for every table, replies_count_dict maps each user id to the number
\* of its occurrences in the non-None entries of the replies column, and
\* has no key for an id that does not occur.
C5_RepliesCount ==
    infoStatus \in {"returned", "raised"} =>
        /\ infoStatus = "returned"
        /\ LET d == info[1].replies_count_dict IN
              /\ DOMAIN d = {u \in Users : Occurrences(u) > 0}
              /\ \A u \in DOMAIN d : d[u] = Occurrences(u)

----------------------------------------------------------------------------
\* Properties of map_userid_2_realname (checked under SpecMap)

\* the ids of the directory, and the display name of one of them
ProfileIds == {user_profile[i].id : i \in DOMAIN user_profile}
DisplayName(id) ==
    user_profile[CHOOSE i \in DOMAIN user_profile : user_profile[i].id = id].real_name

\* the entries of comm_dict whose id the directory has
Resolved == {i \in DOMAIN comm_dict : comm_dict[i].id \in ProfileIds}

\* C6: an id of comm_dict that the directory lacks is dropped without an
\* exception: every output row is the name and count of an id the
\* directory has, and there are no more rows than such ids.
C6_AbsentDropped ==
    /\ mapStatus # "raised"
    /\ mapStatus = "returned" =>
          /\ Len(mapOut[1]) <= Cardinality(Resolved)
          /\ \A k \in DOMAIN mapOut[1] :
                \E i \in Resolved :
                    /\ mapOut[1][k].name = DisplayName(comm_dict[i].id)
                    /\ mapOut[1][k].count = comm_dict[i].count

\* C6 witness: comm_dict had an id the directory lacks and one it has, and
\* the call returned a row.
C6_Witness ==
    /\ mapStatus = "returned"
    /\ mapOut[1] # <<>>
    /\ \E i \in DOMAIN comm_dict : comm_dict[i].id \notin ProfileIds

\* C7: every id that is in comm_dict and in the directory has its own
\* output row with its display name and its count, also when two ids have
\* one display name.
C7_RowPerIdentifier ==
    mapStatus = "returned" =>
        /\ Len(mapOut[1]) = Cardinality(Resolved)
        /\ \A i \in Resolved :
              \E k \in DOMAIN mapOut[1] :
                  /\ mapOut[1][k].name = DisplayName(comm_dict[i].id)
                  /\ mapOut[1][k].count = comm_dict[i].count

====
